---- MODULE Spec2Model ----
(***************************************************************************)
(* A model of flowfairy-api's FCS decoder (src/src/lib.rs): read_fcs =     *)
(* read_metadata (read_header, delimiter, keyword/value pair loop,         *)
(* validate_metadata) followed by read_data (decode loop, per-parameter    *)
(* assembly).  A file is a sequence of bytes (0..255); byte offset p of    *)
(* the file is file[p + 1].                                                *)
(***************************************************************************)
EXTENDS Integers, Sequences, FiniteSets, TLC

VARIABLES
    file,              \* the bytes of the opened file (never written)
    pc,                \* position of the decode call in read_fcs
    pos,               \* reader.stream_position()
    header,            \* the Header read_header returned, or NoHeader
    metadata,          \* the Metadata under construction / returned
    pairs,             \* history: the (keyword, value) clean_kv returned, per loop iteration
    iter,              \* loop counter of the decode loop (the `_` of 0..capacity)
    data,              \* the flat Vec<f64> of read_data
    parameter_events,  \* the Vec<Parameter> of read_data
    result             \* how the call ended: "none" (running), "Ok", "Err", "Panic"

vars == <<file, pc, pos, header, metadata, pairs, iter, data, parameter_events, result>>

-----------------------------------------------------------------------------
(* Bytes and string literals *)

AsciiRun == "#$%&'()*+,-./0123456789:;<=>?@ABCDEFGHIJKLMNOPQRSTUVWXYZ"

\* The ASCII code of a one-character string (space, '_', or '#' (35) .. 'Z' (90)).
OrdTable ==
    [c \in {SubSeq(AsciiRun, i, i) : i \in 1..Len(AsciiRun)} |->
        34 + (CHOOSE i \in 1..Len(AsciiRun) : SubSeq(AsciiRun, i, i) = c)]

Ord(c) ==
    IF c = " " THEN 32
    ELSE IF c = "_" THEN 95
    ELSE OrdTable[c]

\* The bytes of a string literal.
B(s) == [i \in 1..Len(s) |-> Ord(SubSeq(s, i, i))]

Range(s) == {s[i] : i \in DOMAIN s}

IsDigit(b) == b >= 48 /\ b <= 57

\* u8::is_ascii_whitespace: space, \t, \n, form feed, \r (not vertical tab).
IsAsciiWhitespace(b) == b \in {32, 9, 10, 12, 13}

\* char::is_whitespace on an ASCII char: the above and vertical tab.
IsWhitespaceChar(b) == b \in {32, 9, 10, 11, 12, 13}

\* <[u8]>::trim_ascii
TrimAscii(s) ==
    LET keep == {i \in DOMAIN s : ~IsAsciiWhitespace(s[i])}
    IN  IF keep = {} THEN <<>>
        ELSE SubSeq(s, CHOOSE i \in keep : \A j \in keep : i <= j,
                       CHOOSE i \in keep : \A j \in keep : i >= j)

\* str::from_utf8(..).is_ok(): the well-formed byte sequences of UTF-8.
RECURSIVE IsUtf8(_)
IsUtf8(s) ==
    IF s = <<>> THEN TRUE
    ELSE LET b == s[1]
             n == Len(s)
             Cont(i) == i <= n /\ s[i] >= 128 /\ s[i] <= 191
         IN  IF b < 128 THEN IsUtf8(Tail(s))
             ELSE IF b >= 194 /\ b <= 223
                  THEN Cont(2) /\ IsUtf8(SubSeq(s, 3, n))
             ELSE IF b >= 224 /\ b <= 239
                  THEN /\ Cont(2) /\ Cont(3)
                       /\ (b = 224 => s[2] >= 160)
                       /\ (b = 237 => s[2] <= 159)
                       /\ IsUtf8(SubSeq(s, 4, n))
             ELSE IF b >= 240 /\ b <= 244
                  THEN /\ Cont(2) /\ Cont(3) /\ Cont(4)
                       /\ (b = 240 => s[2] >= 144)
                       /\ (b = 244 => s[2] <= 143)
                       /\ IsUtf8(SubSeq(s, 5, n))
             ELSE FALSE

\* str::trim on valid UTF-8: strips White_Space chars from both ends.  The
\* one-byte ones and the two-byte ones (U+0085, U+00A0) are modelled; the
\* three-byte White_Space code points do not occur in the files of Init.
RECURSIVE TrimStart(_)
TrimStart(s) ==
    IF s = <<>> THEN s
    ELSE IF IsWhitespaceChar(s[1]) THEN TrimStart(Tail(s))
    ELSE IF Len(s) >= 2 /\ s[1] = 194 /\ s[2] \in {133, 160}
         THEN TrimStart(SubSeq(s, 3, Len(s)))
    ELSE s

RECURSIVE TrimEnd(_)
TrimEnd(s) ==
    LET n == Len(s)
    IN  IF s = <<>> THEN s
        ELSE IF IsWhitespaceChar(s[n]) THEN TrimEnd(SubSeq(s, 1, n - 1))
        ELSE IF n >= 2 /\ s[n - 1] = 194 /\ s[n] \in {133, 160}
             THEN TrimEnd(SubSeq(s, 1, n - 2))
        ELSE s

Trim(s) == TrimEnd(TrimStart(s))

NoValue == -1

\* The digits of s folded left to right, as from_str_radix does.
RECURSIVE DigitsValue(_, _)
DigitsValue(s, acc) ==
    IF s = <<>> THEN acc ELSE DigitsValue(Tail(s), acc * 10 + (s[1] - 48))

\* str::parse::<u64> / ::<usize>: an optional '+', then one or more ASCII
\* digits; anything else (empty, a lone sign, '-', a non-digit) is an error,
\* here NoValue.  (Overflow of 64 bits needs 20 digits; Init has no such value.)
ParseU64(s) ==
    LET digits == IF s # <<>> /\ s[1] = 43 THEN Tail(s) ELSE s
    IN  IF digits = <<>> \/ \E i \in DOMAIN digits : ~IsDigit(digits[i])
        THEN NoValue
        ELSE DigitsValue(digits, 0)

\* format!("{}", n) for an unsigned n: its decimal digits.
RECURSIVE ToDec(_)
ToDec(n) == IF n < 10 THEN <<48 + n>> ELSE ToDec(n \div 10) \o <<48 + (n % 10)>>

-----------------------------------------------------------------------------
(* Reader primitives *)

EOF == <<-1>>

\* read_exact of n bytes at offset p: the bytes, or EOF (Err(UnexpectedEof)).
ReadExact(f, p, n) ==
    IF p + n <= Len(f) THEN SubSeq(f, p + 1, p + n) ELSE EOF

\* read_until(delimitter) at offset p: the bytes up to and including the next
\* delimiter, or up to the end of the file when there is none (possibly empty).
ReadUntil(f, p, d) ==
    LET hits == {i \in (p + 1)..Len(f) : f[i] = d}
    IN  IF hits = {} THEN SubSeq(f, p + 1, Len(f))
        ELSE SubSeq(f, p + 1, CHOOSE i \in hits : \A j \in hits : i <= j)

-----------------------------------------------------------------------------
(* read_header *)

NoHeader == [version |-> <<>>]

valid_versions == {B("FCS3.0"), B("FCS3.1")}

\* validate_fcs_version: "Ok", or "Panic" (expect on from_utf8, panic!).
ValidateFcsVersion(bytes) ==
    IF IsUtf8(bytes) /\ bytes \in valid_versions THEN "Ok" ELSE "Panic"

\* validate_spaces: "Ok", or "Panic".
ValidateSpaces(bytes) ==
    IF IsUtf8(bytes) /\ bytes = B("    ") THEN "Ok" ELSE "Panic"

\* The i-th (0-based) 8-byte offset field as read at lines 122-123.
OffsetField(f, i) == ReadExact(f, 10 + 8 * i, 8)

\* One iteration of the offsets loop: "Err" when read_exact fails, "Panic"
\* when an expect fails, else "Ok".
OffsetOutcome(f, i) ==
    LET raw == OffsetField(f, i)
    IN  IF raw = EOF THEN "Err"
        ELSE IF ~IsUtf8(TrimAscii(raw)) \/ ParseU64(TrimAscii(raw)) = NoValue
             THEN "Panic"
        ELSE "Ok"

OffsetValue(f, i) == ParseU64(TrimAscii(OffsetField(f, i)))

\* A faulty variant of HeaderOf: txt_end and data_start exchanged.
HeaderOfSwapped(version, offsets) ==
    [version        |-> version,
     txt_start      |-> offsets[1],
     txt_end        |-> offsets[3],
     data_start     |-> offsets[2],
     data_end       |-> offsets[4],
     analysis_start |-> offsets[5],
     analysis_end   |-> offsets[6]]

\* A faulty variant of HeaderOf: data_start and data_end exchanged.
HeaderOfDataSwapped(version, offsets) ==
    [version        |-> version,
     txt_start      |-> offsets[1],
     txt_end        |-> offsets[2],
     data_start     |-> offsets[4],
     data_end       |-> offsets[3],
     analysis_start |-> offsets[5],
     analysis_end   |-> offsets[6]]

\* The Header literal (offsets is 1-based here: offsets[k + 1] is offsets[k]).
HeaderOf(version, offsets) ==
    [version        |-> version,
     txt_start      |-> offsets[1],
     txt_end        |-> offsets[2],
     data_start     |-> offsets[3],
     data_end       |-> offsets[4],
     analysis_start |-> offsets[5],
     analysis_end   |-> offsets[6]]

\* How read_header ends on file f: the first failing step in program order.
ReadHeaderOutcome(f) ==
    IF ReadExact(f, 0, 6) = EOF THEN "Err"
    ELSE IF ValidateFcsVersion(ReadExact(f, 0, 6)) = "Panic" THEN "Panic"
    ELSE IF ReadExact(f, 6, 4) = EOF THEN "Err"
    ELSE IF ValidateSpaces(ReadExact(f, 6, 4)) = "Panic" THEN "Panic"
    ELSE LET bad == {i \in 0..5 : OffsetOutcome(f, i) # "Ok"}
         IN  IF bad = {} THEN "Ok"
             ELSE OffsetOutcome(f, CHOOSE i \in bad : \A j \in bad : i <= j)

-----------------------------------------------------------------------------
(* read_metadata: the pair loop and clean_kv *)

REQUIRED_KEYWORDS ==
    {B("$BEGINANALYSIS"), B("$BEGINDATA"), B("$BEGINSTEXT"), B("$BYTEORD"),
     B("$DATATYPE"), B("$ENDANALYSIS"), B("$ENDDATA"), B("$ENDSTEXT"),
     B("$MODE"), B("$NEXTDATA"), B("$PAR"), B("$TOT")}

OPTIONAL_KEYWORDS ==
    {B("$ABRT"), B("$BTIM"), B("$CELLS"), B("$COM"), B("$CSMODE"),
     B("$CSVBITS"), B("$CYT"), B("$CYTSN"), B("$DATE"), B("$ETIM"), B("$EXP"),
     B("$FIL"), B("$GATE"), B("$GATING"), B("$INST"), B("$LAST_MODIFIED"),
     B("$LAST_MODIFIER"), B("$LOST"), B("$OP"), B("$ORIGINALITY"),
     B("$PLATEID"), B("$PLATENAME"), B("$PROJ"), B("$SMNO"), B("$SPILLOVER"),
     B("$SRC"), B("$SYS"), B("$TIMESTEP"), B("$TR"), B("$VOL"), B("$WELLID")}

\* Metadata::default()
DefaultMetadata ==
    [version |-> <<>>, delimitter |-> 0, keywords |-> <<>>, values |-> <<>>]

\* One argument of clean_kv: the chunk without its last byte, as text;
\* invalid UTF-8 gives "", valid text is trimmed.  (The chunk is non-empty.)
CleanChunk(chunk) ==
    LET body == SubSeq(chunk, 1, Len(chunk) - 1)
    IN  IF IsUtf8(body) THEN Trim(body) ELSE <<>>

\* clean_kv: "Panic" on an empty chunk (keyword.len() - 1 underflows: a
\* subtract-overflow panic in a debug build, a slice-index panic in release).
CleanKv(keyword, value) ==
    IF Len(keyword) = 0 \/ Len(value) = 0 THEN "Panic"
    ELSE <<CleanChunk(keyword), CleanChunk(value)>>

\* A faulty variant of RecordPair: the first occurrence of a keyword keeps its value.
RecordPairFirstWins(md, keyword, value) ==
    IF keyword # <<>>
    THEN [md EXCEPT !.keywords = Append(@, keyword),
                    !.values = @ @@ (keyword :> value)]
    ELSE md

\* Lines 188-191: a non-empty keyword is pushed and inserted (overwriting).
RecordPair(md, keyword, value) ==
    IF keyword # <<>>
    THEN [md EXCEPT !.keywords = Append(@, keyword),
                    !.values = (keyword :> value) @@ @]
    ELSE md

-----------------------------------------------------------------------------
(* validate_metadata *)

\* str::chars().count(): the bytes that are not UTF-8 continuation bytes.
CharCount(s) == Cardinality({i \in DOMAIN s : s[i] < 128 \/ s[i] > 191})

ParamPrefix == Range(B("PR"))
ParamSuffix == Range(B("BENRDFGLOPSTVIW"))

\* The text s[i..j] has the shape [PR]\d{1,n}[BENRDFGLOPSTVIW].
\* (\d also matches non-ASCII decimal digits; Init has none.)
ParamShape(s, i, j, n) ==
    /\ j - i >= 2 /\ j - i - 1 <= n
    /\ s[i] \in ParamPrefix
    /\ \A k \in (i + 1)..(j - 1) : IsDigit(s[k])
    /\ s[j] \in ParamSuffix

\* RegexSet::is_match: an unanchored search, true when any substring matches.
IsMatch(s, n) ==
    \E i \in DOMAIN s : \E j \in DOMAIN s : ParamShape(s, i, j, n)

\* validate_metadata: "Ok" when it returns, "Panic" when it panics.
ValidateMetadata(md) ==
    IF \E k \in REQUIRED_KEYWORDS : k \notin Range(md.keywords) THEN "Panic"
    ELSE LET n_digits == CharCount(md.values[B("$PAR")])
         IN  IF n_digits = 0 THEN "Panic"    \* \d{1,0}: RegexSet::new(..).unwrap()
             ELSE IF \E i \in DOMAIN md.keywords :
                        /\ md.keywords[i] \notin REQUIRED_KEYWORDS
                        /\ md.keywords[i] \notin OPTIONAL_KEYWORDS
                        /\ ~IsMatch(md.keywords[i], n_digits)
                  THEN "Panic"
             ELSE "Ok"

-----------------------------------------------------------------------------
(* read_data *)

data_mode == metadata.values[B("$MODE")]
data_type == metadata.values[B("$DATATYPE")]
total_params == ParseU64(metadata.values[B("$PAR")])
total_events == ParseU64(metadata.values[B("$TOT")])
start_offset == ParseU64(metadata.values[B("$BEGINDATA")])
byte_order == metadata.values[B("$BYTEORD")]
capacity == total_params * total_events

\* read_i32::<LittleEndian> then `as f64`: the two's complement value.
I32Le(b) ==
    [kind |-> "i32",
     v |-> b[1] + 256 * b[2] + 65536 * b[3]
           + 16777216 * (IF b[4] >= 128 THEN b[4] - 256 ELSE b[4])]

Reverse(s) == [i \in 1..Len(s) |-> s[Len(s) + 1 - i]]

\* read_f32 / read_f64 then widening: the value is named by its IEEE-754 bit
\* pattern, most significant byte first.
FloatLe(kind, b) == [kind |-> kind, bits |-> Reverse(b)]
FloatBe(kind, b) == [kind |-> kind, bits |-> b]

\* The width in bytes of one read of the decode loop, 0 when the iteration
\* reads nothing (no branch of the if/else-if chain is taken).
ReadWidth ==
    IF data_type = B("I") THEN 4
    ELSE IF data_type = B("F") /\ byte_order \in {B("1,2,3,4"), B("4,3,2,1")} THEN 4
    ELSE IF data_type = B("D")
            /\ byte_order \in {B("1,2,3,4,5,6,7,8"), B("8,7,6,5,4,3,2,1")} THEN 8
    ELSE 0

\* The value one iteration pushes from the bytes b it read.
Decode(b) ==
    IF data_type = B("I") THEN I32Le(b)
    ELSE IF data_type = B("F")
         THEN IF byte_order = B("1,2,3,4") THEN FloatLe("f32", b) ELSE FloatBe("f32", b)
    ELSE IF byte_order = B("1,2,3,4,5,6,7,8") THEN FloatLe("f64", b) ELSE FloatBe("f64", b)

\* A faulty variant of ParamKeyword: the names are looked up in descending index order.
ParamKeywordDescending(i) == B("$P") \o ToDec(total_params - i) \o B("N")

\* format!("$P{}N", i+1)
ParamKeyword(i) == B("$P") \o ToDec(i + 1) \o B("N")

\* A faulty variant of EventIndex: an event-major layout.
EventIndexEventMajor(i, j) == j * total_params + i

\* let index = i * total_events + j
EventIndex(i, j) == i * total_events + j

-----------------------------------------------------------------------------
(* The decode call, step by step *)

Fail(how) ==
    /\ result' = how
    /\ pc' = "done"

\* read_header (called first by read_metadata).
ReadHeader ==
    /\ pc = "read_header"
    /\ LET outcome == ReadHeaderOutcome(file)
       IN  IF outcome = "Ok"
           THEN /\ header' = HeaderOf(ReadExact(file, 0, 6),
                                      [k \in 1..6 |-> OffsetValue(file, k - 1)])
                /\ pos' = 58
                /\ pc' = "read_delimiter"
                /\ UNCHANGED result
           ELSE /\ Fail(outcome)
                /\ UNCHANGED <<header, pos>>
    /\ UNCHANGED <<file, metadata, pairs, iter, data, parameter_events>>

\* read_metadata, lines 173-178: seek to txt_start and read the delimiter.
ReadDelimiter ==
    /\ pc = "read_delimiter"
    /\ IF header.txt_start < Len(file)
       THEN /\ metadata' = [DefaultMetadata EXCEPT
                               !.version = header.version,
                               !.delimitter = file[header.txt_start + 1]]
            /\ pos' = header.txt_start + 1
            /\ pc' = "pair_loop"
            /\ UNCHANGED result
       ELSE /\ Fail("Err")            \* read_u8()? at end of file
            /\ metadata' = [DefaultMetadata EXCEPT !.version = header.version]
            /\ pos' = header.txt_start
    /\ UNCHANGED <<file, header, pairs, iter, data, parameter_events>>

\* One iteration of the while loop, lines 180-192.
ReadPair ==
    /\ pc = "pair_loop"
    /\ pos < header.txt_end
    /\ LET keyword == ReadUntil(file, pos, metadata.delimitter)
           value   == ReadUntil(file, pos + Len(keyword), metadata.delimitter)
           kv      == CleanKv(keyword, value)
       IN  /\ pos' = pos + Len(keyword) + Len(value)
           /\ IF kv = "Panic"
              THEN /\ Fail("Panic")
                   /\ UNCHANGED <<metadata, pairs>>
              ELSE /\ metadata' = RecordPair(metadata, kv[1], kv[2])
                   /\ pairs' = Append(pairs, kv)
                   /\ UNCHANGED <<pc, result>>
    /\ UNCHANGED <<file, header, iter, data, parameter_events>>

\* The loop exit, validate_metadata and the return of read_metadata.
ValidateAndReturn ==
    /\ pc = "pair_loop"
    /\ pos >= header.txt_end
    /\ IF ValidateMetadata(metadata) = "Ok"
       THEN pc' = "read_data" /\ UNCHANGED result
       ELSE Fail("Panic")
    /\ UNCHANGED <<file, pos, header, metadata, pairs, iter, data, parameter_events>>

\* read_data, lines 240-259: the checks before the decode loop and the seek.
ReadDataSetup ==
    /\ pc = "read_data"
    /\ IF \/ data_mode # B("L")
          \/ total_params = NoValue \/ total_events = NoValue
          \/ start_offset = NoValue
          \/ capacity = 0
       THEN Fail("Panic") /\ UNCHANGED pos
       ELSE /\ pos' = start_offset
            /\ pc' = "decode_loop"
            /\ UNCHANGED result
    /\ UNCHANGED <<file, header, metadata, pairs, iter, data, parameter_events>>

\* The `_ => panic!("Invalid data type")` arm of the match.
InvalidDataType ==
    /\ pc = "decode_loop"
    /\ data_type \notin {B("I"), B("F"), B("D")}
    /\ Fail("Panic")
    /\ UNCHANGED <<file, pos, header, metadata, pairs, iter, data, parameter_events>>

\* One iteration of `for _ in 0..capacity` in the "I", "F" or "D" arm.
DecodeValue ==
    /\ pc = "decode_loop"
    /\ data_type \in {B("I"), B("F"), B("D")}
    /\ iter < capacity
    /\ IF ReadWidth = 0
       THEN /\ UNCHANGED <<data, pos, result>>
            /\ iter' = iter + 1
            /\ pc' = IF iter + 1 = capacity THEN "assemble" ELSE pc
       ELSE IF ReadExact(file, pos, ReadWidth) = EOF
            THEN /\ Fail("Err")
                 /\ UNCHANGED <<data, pos, iter>>
            ELSE /\ data' = Append(data, Decode(ReadExact(file, pos, ReadWidth)))
                 /\ pos' = pos + ReadWidth
                 /\ iter' = iter + 1
                 /\ pc' = IF iter + 1 = capacity THEN "assemble" ELSE pc
                 /\ UNCHANGED result
    /\ UNCHANGED <<file, header, metadata, pairs, parameter_events>>

\* One iteration of `for i in 0..total_params`, lines 297-312.
AssembleParameter ==
    /\ pc = "assemble"
    /\ Len(parameter_events) < total_params
    /\ LET i == Len(parameter_events)
       IN  IF \/ ParamKeyword(i) \notin DOMAIN metadata.values      \* unwrap on None
              \/ \E j \in 0..(total_events - 1) :
                    EventIndex(i, j) >= Len(data)                   \* data[index]
           THEN Fail("Panic") /\ UNCHANGED parameter_events
           ELSE /\ parameter_events' = Append(parameter_events,
                    [id     |-> metadata.values[ParamKeyword(i)],
                     events |-> [j \in 1..total_events |->
                                    data[EventIndex(i, j - 1) + 1]]])
                /\ UNCHANGED <<pc, result>>
    /\ UNCHANGED <<file, pos, header, metadata, pairs, iter, data>>

\* return Ok(parameter_events); read_fcs returns Ok(FlowData{..}).
ReturnFlowData ==
    /\ pc = "assemble"
    /\ Len(parameter_events) = total_params
    /\ result' = "Ok"
    /\ pc' = "done"
    /\ UNCHANGED <<file, pos, header, metadata, pairs, iter, data, parameter_events>>

Next ==
    \/ ReadHeader
    \/ ReadDelimiter
    \/ ReadPair
    \/ ValidateAndReturn
    \/ ReadDataSetup
    \/ InvalidDataType
    \/ DecodeValue
    \/ AssembleParameter
    \/ ReturnFlowData

-----------------------------------------------------------------------------
(* The files the decode call is run on *)

MaxPar == 2        \* $PAR of the generated files is 0..MaxPar (and 10)
MaxTot == 2        \* $TOT of the generated files is 0..MaxTot
MaxExtra == 2      \* up to MaxExtra extra keyword/value pairs are combined

Min(a, b) == IF a <= b THEN a ELSE b

RECURSIVE Flatten(_)
Flatten(ss) == IF ss = <<>> THEN <<>> ELSE Head(ss) \o Flatten(Tail(ss))

\* An 8-byte header field: the text right-justified, padded with spaces.
Field8(text) == [i \in 1..(8 - Len(text)) |-> 32] \o text

FieldVariants ==
    {Field8(B("0")), Field8(B("+64")), Field8(B("00000300")), Field8(B("99999999")),
     B("64      "), B("  64    "), B("        "), Field8(B("-0")), Field8(B("1 2")),
     Field8(B("ABC")), Field8(<<9, 54, 52>>), Field8(<<11, 54, 52>>),
     Field8(<<255, 54, 52>>), Field8(<<54, 52, 194, 160>>)}

Versions == {B("FCS3.0"), B("FCS3.1"), B("FCS2.0"), <<70, 67, 83, 255, 46, 49>>}

SpacesVariants == {B("    "), B("   0"), <<32, 32, 32, 255>>}

\* n data bytes, a fixed pattern per seed (bytes above 127 included).
DataBytes(seed, n) == [i \in 1..n |-> (seed + 53 * i) % 256]

\* Extra keyword/value pairs, as raw bytes, for a file whose delimiter is d.
UnknownKeywordPairs ==
    {<<B("$FOO"), B("1")>>, <<B("$FOOP1N"), B("X")>>, <<B("P1N"), B("X")>>,
     <<B("$P1NX"), B("X")>>, <<B("$P12N"), B("X")>>, <<B("$P1A"), B("X")>>,
     <<B("$Q1N"), B("X")>>, <<B("$PN"), B("X")>>, <<B("$P1"), B("X")>>}

KnownKeywordPairs ==
    {<<B("$P1B"), B("32")>>, <<B("$R1B"), B("8")>>, <<B(" $CYT "), B(" LSR 2 ")>>,
     <<B("$COM"), <<255>>>>, <<<<9, 36, 79, 80, 11>>, <<194, 160, 65, 194, 133>>>>}

CorePairs(d) ==
    {<<B("$COM"), B("FIRST")>>, <<B("$COM"), B("SECOND")>>, <<B("$TOT"), B("1")>>,
     <<B("  "), B("V")>>, <<<<36, 254>>, B("W")>>,
     <<B("$SRC"), B("A") \o <<d, d>> \o B("B")>>}

SeqsUpTo(S, n) == UNION {[1..k -> S] : k \in 0..n}

\* The description of one generated file.
BaseShape ==
    [version  |-> B("FCS3.1"),
     spaces   |-> B("    "),
     fields   |-> <<>>,          \* header fields written as given (index :> bytes)
     delim    |-> 47,
     front    |-> <<>>,          \* extra pairs before the required keywords
     back     |-> <<>>,          \* extra pairs after the parameter names
     drop     |-> 0,             \* the required pair left out (0: none)
     byteord  |-> B("1,2,3,4"),
     datatype |-> B("I"),
     mode     |-> B("L"),
     par      |-> 2,
     parText  |-> B("2"),
     tot      |-> 2,
     named    |-> 2,             \* $P1N .. $P<named>N are present
     seed     |-> 0,
     width    |-> 4,             \* bytes of data written per value
     keep     |-> -1]            \* the file is cut to this length (-1: whole)

RequiredPairs(s, begindata) ==
    <<<<B("$BEGINANALYSIS"), B("0")>>, <<B("$BEGINDATA"), ToDec(begindata)>>,
      <<B("$BEGINSTEXT"), B("0")>>, <<B("$BYTEORD"), s.byteord>>,
      <<B("$DATATYPE"), s.datatype>>, <<B("$ENDANALYSIS"), B("0")>>,
      <<B("$ENDDATA"), B("0")>>, <<B("$ENDSTEXT"), B("0")>>,
      <<B("$MODE"), s.mode>>, <<B("$NEXTDATA"), B("0")>>,
      <<B("$PAR"), s.parText>>, <<B("$TOT"), ToDec(s.tot)>>>>

PairsOf(s, begindata) ==
    LET req == RequiredPairs(s, begindata)
    IN  s.front
        \o [i \in 1..(Len(req) - (IF s.drop = 0 THEN 0 ELSE 1)) |->
               req[IF s.drop # 0 /\ i >= s.drop THEN i + 1 ELSE i]]
        \o [i \in 1..s.named |-> <<B("$P") \o ToDec(i) \o B("N"), B("CH") \o ToDec(i)>>]
        \o s.back

\* The TEXT segment: the delimiter, then each keyword and value followed by it.
TextOf(s, begindata) ==
    LET ps == PairsOf(s, begindata)
    IN  <<s.delim>> \o
        Flatten([i \in 1..Len(ps) |-> ps[i][1] \o <<s.delim>> \o ps[i][2] \o <<s.delim>>])

\* The file: the 58-byte header, the TEXT segment, the DATA segment.
MkFile(s) ==
    LET n      == 58 + Len(TextOf(s, 100))
        text   == TextOf(s, n)
        dat    == DataBytes(s.seed, s.par * s.tot * s.width)
        auto   == <<58, n - 1, n, IF dat = <<>> THEN n ELSE n + Len(dat) - 1, 0, 0>>
        fields == [k \in 1..6 |-> IF k \in DOMAIN s.fields THEN s.fields[k]
                                  ELSE Field8(ToDec(auto[k]))]
        whole  == s.version \o s.spaces \o Flatten(fields) \o text \o dat
    IN  IF s.keep = -1 THEN whole ELSE SubSeq(whole, 1, Min(s.keep, Len(whole)))

HeaderShapes ==
    {[BaseShape EXCEPT !.version = v, !.spaces = sp] :
        v \in Versions, sp \in SpacesVariants}
    \cup {[BaseShape EXCEPT !.fields = (k :> fv)] : k \in 1..6, fv \in FieldVariants}
    \cup {[BaseShape EXCEPT !.fields = (2 :> Field8(B("40"))) @@ (3 :> Field8(B("0")))
                                       @@ (4 :> Field8(B("0")))]}

CutShapes ==
    {[BaseShape EXCEPT !.keep = n, !.datatype = t, !.width = IF t = B("D") THEN 8 ELSE 4,
                       !.byteord = IF t = B("D") THEN B("8,7,6,5,4,3,2,1") ELSE @] :
        n \in 0..290, t \in {B("I"), B("D")}}

TextShapes ==
    {[BaseShape EXCEPT !.back = <<p>>] : p \in UnknownKeywordPairs \cup KnownKeywordPairs}
    \cup {[BaseShape EXCEPT !.front = <<p>>, !.parText = B("02")] :
             p \in UnknownKeywordPairs \cup KnownKeywordPairs}
    \cup UNION {{[BaseShape EXCEPT !.back = ps], [BaseShape EXCEPT !.front = ps]} :
                   ps \in SeqsUpTo(CorePairs(47), MaxExtra)}
    \cup UNION {{[BaseShape EXCEPT !.back = <<p>>, !.delim = d] : p \in CorePairs(d)} :
                   d \in {12, 255}}
    \cup {[BaseShape EXCEPT !.drop = k] : k \in 1..12}

DataShapes ==
    {[BaseShape EXCEPT !.par = p, !.parText = ToDec(p), !.tot = t, !.named = p,
                       !.datatype = dt, !.byteord = bo, !.seed = sd,
                       !.width = IF dt = B("D") THEN 8 ELSE 4] :
        p \in 0..MaxPar, t \in 0..MaxTot,
        dt \in {B("I"), B("F"), B("D"), B("A")},
        bo \in {B("1,2,3,4"), B("4,3,2,1"), B("1,2,3,4,5,6,7,8"),
                B("8,7,6,5,4,3,2,1"), B("2,1")},
        sd \in {0, 77}}
    \cup {[BaseShape EXCEPT !.parText = pt, !.mode = m] :
             pt \in {B("2"), B("+2"), B("02"), B(" 2 "), B(" "), B("X"), B("2X"), B("-2")},
             m \in {B("L"), B("H"), B(" L")}}
    \cup {[BaseShape EXCEPT !.named = k, !.datatype = B("F")] : k \in 0..MaxPar}
    \cup {[BaseShape EXCEPT !.par = 10, !.parText = B("10"), !.tot = 1, !.named = k,
                            !.back = <<p>>] :
             k \in {9, 10}, p \in UnknownKeywordPairs \cup KnownKeywordPairs}

Shapes == HeaderShapes \cup CutShapes \cup TextShapes \cup DataShapes

Init ==
    /\ file \in {MkFile(s) : s \in Shapes}
    /\ pc = "read_header"
    /\ pos = 0
    /\ header = NoHeader
    /\ metadata = DefaultMetadata
    /\ pairs = <<>>
    /\ iter = 0
    /\ data = <<>>
    /\ parameter_events = <<>>
    /\ result = "none"

Spec == Init /\ [][Next]_vars

-----------------------------------------------------------------------------
(* Properties *)

\* The pair loop has ended normally (the position reached txt_end).
TextParsed ==
    \/ pc \in {"read_data", "decode_loop", "assemble"}
    \/ pc = "pair_loop" /\ pos >= header.txt_end
    \/ pc = "done" /\ result = "Ok"

\* The non-empty keywords of a sequence of cleaned pairs, in order.
RECURSIVE KeywordsOf(_)
KeywordsOf(ps) ==
    IF ps = <<>> THEN <<>>
    ELSE (IF ps[1][1] # <<>> THEN <<ps[1][1]>> ELSE <<>>) \o KeywordsOf(Tail(ps))

\* The value of the last pair of ps whose keyword is k.
LastValueOf(ps, k) ==
    LET at == {i \in DOMAIN ps : ps[i][1] = k}
    IN  ps[CHOOSE i \in at : \A j \in at : i >= j][2]

\* Section 4.2 step 3 of the specification: the offset of the delimiter that
\* truly terminates the value starting at offset p (a delimiter followed by a
\* second one is an escaped delimiter inside the value), or Len(f) if none.
RECURSIVE TrueTerminator(_, _, _)
TrueTerminator(f, p, d) ==
    IF p >= Len(f) THEN Len(f)
    ELSE IF f[p + 1] # d THEN TrueTerminator(f, p + 1, d)
    ELSE IF p + 1 < Len(f) /\ f[p + 2] = d THEN TrueTerminator(f, p + 2, d)
    ELSE p

\* The bytes of a raw value with each doubled delimiter decoded to one.
RECURSIVE Unescape(_, _)
Unescape(v, d) ==
    IF Len(v) < 2 THEN v
    ELSE IF v[1] = d /\ v[2] = d THEN <<d>> \o Unescape(SubSeq(v, 3, Len(v)), d)
    ELSE <<v[1]>> \o Unescape(Tail(v), d)

CleanText(bytes) == IF IsUtf8(bytes) THEN Trim(bytes) ELSE <<>>

\* The cleaned pairs of the TEXT segment read from offset p with the escaping
\* rule applied to values.
RECURSIVE EscapedPairs(_, _, _, _)
EscapedPairs(f, p, txtEnd, d) ==
    IF p >= txtEnd \/ p >= Len(f) THEN <<>>
    ELSE LET keyword == ReadUntil(f, p, d)
             vstart  == p + Len(keyword)
             vend    == TrueTerminator(f, vstart, d)
             value   == Unescape(SubSeq(f, vstart + 1, vend), d)
         IN  <<<<CleanChunk(keyword), CleanText(value)>>>>
             \o EscapedPairs(f, vend + 1, txtEnd, d)

\* Offsets p, p + 1 inside the TEXT segment, after the leading delimiter,
\* hold two consecutive delimiter bytes.
HasDoubledDelimiter ==
    \E p \in (header.txt_start + 1)..(header.txt_end - 1) :
        /\ p + 2 <= Len(file)
        /\ file[p + 1] = metadata.delimitter
        /\ file[p + 2] = metadata.delimitter

\* C1: once the TEXT segment of a file that holds a doubled delimiter is
\* parsed, the keyword list and the value map are those of the pairs read
\* with the escaping rule: the doubled delimiter is one embedded delimiter of
\* the value it lies in, and the following pairs are segmented after the true
\* terminator.
C1_EscapedDelimiterDecoded ==
    (TextParsed /\ HasDoubledDelimiter /\ header.txt_end < Len(file)) =>
        LET ref == EscapedPairs(file, header.txt_start + 1, header.txt_end,
                                metadata.delimitter)
        IN  /\ metadata.keywords = KeywordsOf(ref)
            /\ \A k \in Range(metadata.keywords) :
                  metadata.values[k] = LastValueOf(ref, k)

\* C2: the decode loop never finishes with fewer than capacity values in the
\* flat array (an unrecognized $BYTEORD ends the call with an error instead).
C2_NoShortDecode ==
    pc = "assemble" => Len(data) = capacity

\* A parameter keyword as a whole: an optional '$', P or R, 1 to n digits,
\* one attribute suffix letter.
IsParameterKeyword(s, n) ==
    \/ ParamShape(s, 1, Len(s), n)
    \/ Len(s) >= 1 /\ s[1] = 36 /\ ParamShape(s, 2, Len(s), n)

\* C3: validate_metadata returns only when every keyword is required,
\* optional or, as a whole, a parameter keyword of at most d digits, d the
\* number of digits of the $PAR value.
C3_UnknownKeywordRejected ==
    pc = "read_data" =>
        \A i \in DOMAIN metadata.keywords :
            \/ metadata.keywords[i] \in REQUIRED_KEYWORDS \cup OPTIONAL_KEYWORDS
            \/ IsParameterKeyword(metadata.keywords[i],
                                  Len(metadata.values[B("$PAR")]))

\* C4: no decode call aborts the process: it ends with Ok or a typed error.
C4_NoPanic ==
    result # "Panic"

\* C5: a successful decode returns PAR parameters, the i-th with the id
\* stored under "$P<i>N".
C5_ParameterIds ==
    result = "Ok" =>
        /\ Len(parameter_events) = total_params
        /\ \A i \in 1..total_params :
              /\ B("$P") \o ToDec(i) \o B("N") \in DOMAIN metadata.values
              /\ parameter_events[i].id
                    = metadata.values[B("$P") \o ToDec(i) \o B("N")]

C5_Witness ==
    /\ result = "Ok"
    /\ total_params >= 2
    /\ parameter_events[1].id # parameter_events[2].id

RECURSIVE SumEvents(_)
SumEvents(ps) == IF ps = <<>> THEN 0 ELSE Len(ps[1].events) + SumEvents(Tail(ps))

\* C6: a successful decode gives each parameter TOT events, PAR x TOT in all,
\* the j-th event of the k-th parameter being the value decoded at flat
\* position (k-1) x TOT + (j-1) of the DATA segment at $BEGINDATA.
C6_ParameterMajorLayout ==
    result = "Ok" =>
        /\ SumEvents(parameter_events) = total_params * total_events
        /\ \A k \in 1..total_params :
              /\ Len(parameter_events[k].events) = total_events
              /\ \A j \in 1..total_events :
                    parameter_events[k].events[j] =
                        Decode(ReadExact(file,
                            start_offset
                              + ((k - 1) * total_events + (j - 1)) * ReadWidth,
                            ReadWidth))

C6_Witness ==
    /\ result = "Ok"
    /\ total_params >= 2 /\ total_events >= 2
    /\ data_type = B("D")
    /\ parameter_events[1].events[2] # parameter_events[2].events[1]

\* The decimal value of a header field: its digits, after the surrounding
\* whitespace and an optional '+' are removed, weighted by powers of ten.
RECURSIVE Pow10(_)
Pow10(n) == IF n = 0 THEN 1 ELSE 10 * Pow10(n - 1)

RECURSIVE WeightedSum(_, _)
WeightedSum(s, i) ==
    IF i > Len(s) THEN 0 ELSE (s[i] - 48) * Pow10(Len(s) - i) + WeightedSum(s, i + 1)

FieldDecimal(k) ==
    LET raw  == SubSeq(file, 11 + 8 * k, 18 + 8 * k)
        body == SelectSeq(raw, LAMBDA b : b \notin {32, 9, 10, 12, 13, 43})
    IN  WeightedSum(body, 1)

\* C7: a Header read_header returns has the version tag of bytes 0-5 and, in
\* the order txt_start, txt_end, data_start, data_end, analysis_start,
\* analysis_end, the decimal values of the six 8-byte fields from byte 10.
C7_HeaderFieldsPositional ==
    header # NoHeader =>
        /\ header.version = SubSeq(file, 1, 6)
        /\ header.txt_start = FieldDecimal(0)
        /\ header.txt_end = FieldDecimal(1)
        /\ header.data_start = FieldDecimal(2)
        /\ header.data_end = FieldDecimal(3)
        /\ header.analysis_start = FieldDecimal(4)
        /\ header.analysis_end = FieldDecimal(5)

C7_Witness ==
    /\ header # NoHeader
    /\ header.version = B("FCS3.1")
    /\ header.txt_start = 58
    /\ header.txt_start < header.txt_end /\ header.txt_end < header.data_start
    /\ header.data_start < header.data_end
    /\ header.analysis_start = 0 /\ header.analysis_end = 0

\* C8: the keyword list is the sequence of non-empty cleaned keywords of the
\* pairs read so far, in reading (file) order with repetitions; the map's keys
\* are the listed keywords, each bound to the cleaned value of its last pair.
C8_KeywordsAndValues ==
    /\ metadata.keywords = KeywordsOf(pairs)
    /\ DOMAIN metadata.values = Range(metadata.keywords)
    /\ \A k \in DOMAIN metadata.values : metadata.values[k] = LastValueOf(pairs, k)

C8_Witness ==
    /\ TextParsed
    /\ \E i \in DOMAIN pairs : pairs[i][1] = <<>>
    /\ \E i \in DOMAIN pairs : \E j \in DOMAIN pairs :
          /\ i < j
          /\ pairs[i][1] = pairs[j][1] /\ pairs[i][1] # <<>>
          /\ pairs[i][2] # pairs[j][2]

\* C9: when the file ends before txt_end, after the delimiter was read, the
\* call ends with a typed (truncated-segment) error.
C9_TruncatedTextIsError ==
    (/\ pc = "done"
     /\ header # NoHeader
     /\ header.txt_start < Len(file)
     /\ Len(file) < header.txt_end) => result = "Err"

HeaderOrdered ==
    /\ header.txt_start <= header.txt_end
    /\ header.txt_end <= header.data_start
    /\ header.data_start <= header.data_end

\* C10 as stated: every Header read_header returns has
\* txt_start <= txt_end <= data_start <= data_end.
C10_HeaderAlwaysOrdered ==
    header # NoHeader => HeaderOrdered

\* C10, amended: read_header checks no order; the Header it returns is
\* ordered exactly when the file's six header fields are.
C10_HeaderOrderedAsFile ==
    header # NoHeader =>
        (HeaderOrdered <=>
            /\ FieldDecimal(0) <= FieldDecimal(1)
            /\ FieldDecimal(1) <= FieldDecimal(2)
            /\ FieldDecimal(2) <= FieldDecimal(3))

\* A header out of order was accepted and the decode went on to succeed.
C10_Witness ==
    /\ result = "Ok"
    /\ ~HeaderOrdered

====
